---------------------------- MODULE Spec2Model ----------------------------
(***************************************************************************)
(* Model of cmds/inspect-dump-super.c: "btrfs inspect-internal dump-super". *)
(*                                                                         *)
(* One run of cmd_inspect_dump_super is modelled: the getopt loop, the     *)
(* argument-count check, the loop over the device paths and, per device,   *)
(* the calls of load_and_dump_sb.  The operating system (open, fstat,      *)
(* lseek, pread, the output streams) is the environment: each call's       *)
(* outcome is chosen nondeterministically when the call is made.           *)
(*                                                                         *)
(* Byte quantities (u64 offsets, off_t lengths) are pairs <<m, b>> that    *)
(* stand for m * 2^20 + b bytes with 0 <= b < 2^20, because the third      *)
(* superblock offset (256 GiB) does not fit the 32-bit integers of TLC.    *)
(***************************************************************************)
EXTENDS Integers, Sequences, FiniteSets, TLC

(* ------------------------------ bounds -------------------------------- *)

\* number of options on the command line
MaxOpts == 2

\* number of device paths on the command line
MaxDevs == 2

(* ---------------------- byte quantities <<m, b>> ----------------------- *)

\* a byte count below 2^31 as a byte quantity
U64(n) == << n \div 1048576, n % 1048576 >>

U64Lt(x, y) == x[1] < y[1] \/ (x[1] = y[1] /\ x[2] < y[2])

U64Le(x, y) == x = y \/ U64Lt(x, y)

\* x + n for a byte count n below 2^20
U64Add(x, n) == << x[1] + ((x[2] + n) \div 1048576), (x[2] + n) % 1048576 >>

\* x - 1 for x > 0
U64Pred(x) == IF x[2] = 0 THEN << x[1] - 1, 1048575 >> ELSE << x[1], x[2] - 1 >>

\* <<m, b>> << n, one doubling at a time
RECURSIVE U64ShlLimbs(_, _, _)
U64ShlLimbs(m, b, n) ==
    IF n = 0 THEN << m, b >>
    ELSE U64ShlLimbs(2 * m + ((2 * b) \div 1048576), (2 * b) % 1048576, n - 1)

\* x << n
U64Shl(x, n) == U64ShlLimbs(x[1], x[2], n)

\* min(x - y, cap) in bytes, for y <= x and a byte count cap below 2^20
U64DiffCapped(x, y, cap) ==
    IF x[1] - y[1] > 1
    THEN cap
    ELSE LET d == (x[1] - y[1]) * 1048576 + x[2] - y[2]
         IN  IF d > cap THEN cap ELSE d

(* ------------------- constants of the on-disk format ------------------- *)

BTRFS_SUPER_MIRROR_MAX == 3

BTRFS_SUPER_MIRROR_SHIFT == 12

BTRFS_SUPER_INFO_SIZE == 4096

\* 64 KiB
BTRFS_SUPER_INFO_OFFSET == U64(65536)

\* kernel-shared/ctree.h, by the on-disk format (64 KiB, 64 MiB, 256 GiB):
\* u64 start = SZ_16K; mirror ? start << (SHIFT * mirror) : SUPER_INFO_OFFSET
btrfs_sb_offset(mirror) ==
    IF mirror # 0
    THEN U64Shl(U64(16384), BTRFS_SUPER_MIRROR_SHIFT * mirror)
    ELSE BTRFS_SUPER_INFO_OFFSET

Mirrors == 0 .. (BTRFS_SUPER_MIRROR_MAX - 1)

(* ----------------------------- the inputs ------------------------------ *)

\* values of <super>, <bytenr>, <offset> on the command line
ArgValues == { U64(0), U64(1), U64(2), U64(3), U64(65536) }

Options ==
    { [opt |-> o, arg |-> U64(0)] : o \in {"a", "f", "F"} }
    \cup { [opt |-> o, arg |-> v] : o \in {"i", "s", "bytenr"}, v \in ArgValues }

RECURSIVE SeqsUpTo(_, _)
SeqsUpTo(S, n) ==
    IF n = 0 THEN { <<>> }
    ELSE LET shorter == SeqsUpTo(S, n - 1)
         IN  shorter \cup { Append(s, x) : s \in { t \in shorter : Len(t) = n - 1 }, x \in S }

\* lengths of regular files and block devices
DevLengths ==
    { U64(3),                                                \* ends at raw offset 3
      btrfs_sb_offset(0),                                    \* ends where mirror 0 starts
      U64Add(btrfs_sb_offset(0), 2048),                      \* ends inside mirror 0
      U64Add(btrfs_sb_offset(1), BTRFS_SUPER_INFO_SIZE),     \* holds mirrors 0 and 1
      U64Pred(btrfs_sb_offset(2)),                           \* ends just before mirror 2
      btrfs_sb_offset(2),                                    \* ends where mirror 2 starts
      U64Add(btrfs_sb_offset(2), BTRFS_SUPER_INFO_SIZE) }    \* holds all three mirrors

\* what an opened path is: by st_mode a regular file, a block device or
\* anything else, and for the first two its length
Devices ==
    { [kind |-> k, len |-> l] : k \in {"reg", "blk"}, l \in DevLengths }
    \cup { [kind |-> "chr", len |-> U64(0)] }

(* ------------------------------- state --------------------------------- *)

VARIABLES
    pc,         \* position in cmd_inspect_dump_super
    opts,       \* options getopt_long has not returned yet
    ndev,       \* argc - optind: number of device paths
    all, full, force, sb_bytenr,    \* locals of cmd_inspect_dump_super
    i,          \* index of the current device path, 1 .. ndev
    idx,        \* mirror index of the loop under "all"
    fd,         \* -1, or the open descriptor
    dev,        \* what the open descriptor refers to
    errno,      \* the C library's errno: 0, or 5 (EIO) for any error code
    status,     \* -1 while running, else the return value
    \* history
    cause,      \* the hard condition that ended the run, "none" if none
    seen,       \* option letters given with a value >= BTRFS_SUPER_MIRROR_MAX
    calls,      \* numbers of calls made: open, close, fstat, lseek, read, render
    diags,      \* number of "bad magic ... (use --force ...)" messages
    last_s,     \* the value of -s when -s is the latest of -a, -i, -s, --bytenr
    lastcall,   \* the argument of the latest call of btrfs_sb_offset
    probes      \* calls of load_and_dump_sb on the current device, in order

vars == << pc, opts, ndev, all, full, force, sb_bytenr, i, idx, fd, dev,
           errno, status, cause, seen, calls, diags, last_s, lastcall, probes >>

NoDev == [kind |-> "none", len |-> U64(0)]

NoCalls == [open |-> 0, opened |-> 0, close |-> 0, fstat |-> 0, lseek |-> 0,
            read |-> 0, render |-> 0]

Init ==
    /\ pc = "getopt"
    /\ opts \in SeqsUpTo(Options, MaxOpts)
    /\ ndev \in 0 .. MaxDevs
    /\ all = FALSE
    /\ full = FALSE
    /\ force = FALSE
    /\ sb_bytenr = btrfs_sb_offset(0)
    /\ i = 0
    /\ idx = 0
    /\ fd = -1
    /\ dev = NoDev
    /\ errno = 0
    /\ status = -1
    /\ cause = "none"
    /\ seen = {}
    /\ calls = NoCalls
    /\ diags = 0
    /\ last_s = <<>>
    /\ lastcall = 0
    /\ probes = <<>>

(* --------------------------- load_and_dump_sb -------------------------- *)

\* what pread(fd, buf, BTRFS_SUPER_INFO_SIZE, off) can return on d; -1 is the
\* failed call, which the u64 "ret" holds as 2^64 - 1
sbread(d, off) ==
    IF d.kind \in {"reg", "blk"}
    THEN { -1,
           IF U64Le(d.len, off) THEN 0
           ELSE U64DiffCapped(d.len, off, BTRFS_SUPER_INFO_SIZE) }
    ELSE { -1, 0, BTRFS_SUPER_INFO_SIZE \div 2, BTRFS_SUPER_INFO_SIZE }

\* the environment's answers to one call of load_and_dump_sb
Answers(d, off, err) ==
    { [fstat |-> s, lseek |-> l, n |-> n, magic |-> m, outerr |-> oe] :
        s \in BOOLEAN, l \in BOOLEAN, n \in sbread(d, off), m \in BOOLEAN,
        oe \in {err, 5} }

Result(ret, out, nlseek, nread, n, magic, nrender, rfull, ndiag, err) ==
    [ret |-> ret, out |-> out, lseek |-> nlseek, read |-> nread, n |-> n,
     magic |-> magic, render |-> nrender, full |-> rfull, diag |-> ndiag,
     errno |-> err]

\* the comparison turned around
BeyondLastByte_Reversed(off, last_byte) == U64Lt(off, last_byte)

\* if (sb_bytenr > last_byte) return 0, last_byte = lseek(fd, 0, SEEK_END)
BeyondLastByte(off, last_byte) == U64Lt(last_byte, off)

\* the "&& errno == 0" left out
TooShortForSuper_NoErrno(ret, err) == ret = 0

\* if (ret == 0 && errno == 0) return 0
TooShortForSuper(ret, err) == ret = 0 /\ err = 0

\* S_ISCHR for S_ISREG
SizeChecked_Chr(kind) == kind \in {"blk", "chr"}

\* if (S_ISBLK(st.st_mode) || S_ISREG(st.st_mode))
SizeChecked(kind) == kind \in {"blk", "reg"}

\* the flag dropped on the way to the printer
RenderFull_Off(fl) == FALSE

\* btrfs_print_superblock(&sb, full): the flag the printer gets
RenderFull(fl) == fl

\* the "!" of "!force" left out
BadMagic_ForceInverted(magic_ok, frc) == ~magic_ok /\ frc

\* the "&& !force" left out
BadMagic_NoForce(magic_ok, frc) == ~magic_ok

\* if (btrfs_super_magic(&sb) != BTRFS_MAGIC && !force)
BadMagic(magic_ok, frc) == ~magic_ok /\ ~frc

\* the part of load_and_dump_sb from sbread on
ReadAndDump(d, off, fl, frc, err, a, nlseek) ==
    LET rerr == IF a.n = -1 THEN 5 ELSE err
        m    == IF a.magic THEN "ok" ELSE "bad"
    IN  IF a.n # BTRFS_SUPER_INFO_SIZE
        THEN IF TooShortForSuper(a.n, rerr)
             THEN Result(0, "beyond_read", nlseek, 1, a.n, "unread", 0, FALSE, 0, rerr)
             ELSE Result(1, "read_failed", nlseek, 1, a.n, "unread", 0, FALSE, 0, rerr)
        ELSE IF BadMagic(a.magic, frc)
             THEN Result(1, "bad_magic", nlseek, 1, a.n, m, 0, FALSE, 1, a.outerr)
             ELSE Result(0, "rendered", nlseek, 1, a.n, m, 1, RenderFull(fl), 0, a.outerr)

load_and_dump_sb(d, off, fl, frc, err, a) ==
    IF ~a.fstat
    THEN Result(1, "stat_failed", 0, 0, -1, "unread", 0, FALSE, 0, 5)
    ELSE IF SizeChecked(d.kind)
         THEN IF ~a.lseek
              THEN Result(1, "lseek_failed", 1, 0, -1, "unread", 0, FALSE, 0, 5)
              ELSE IF BeyondLastByte(off, d.len)
                   THEN Result(0, "beyond_size", 1, 0, -1, "unread", 0, FALSE, 0, err)
                   ELSE ReadAndDump(d, off, fl, frc, err, a, 1)
         ELSE ReadAndDump(d, off, fl, frc, err, a, 0)

(* ------------------------ cmd_inspect_dump_super ------------------------ *)

\* ">" for ">="
MirrorTooBig_OffByOne(arg) == U64Lt(U64(BTRFS_SUPER_MIRROR_MAX), arg)

\* if (arg >= BTRFS_SUPER_MIRROR_MAX), under case 'i'
MirrorTooBig(arg) == U64Le(U64(BTRFS_SUPER_MIRROR_MAX), arg)

\* "<" for "<="
AssumeBytenr_OffByOne(arg) == U64Lt(U64(BTRFS_SUPER_MIRROR_MAX), arg)

\* if (BTRFS_SUPER_MIRROR_MAX <= arg), under case 's'
AssumeBytenr(arg) == U64Le(U64(BTRFS_SUPER_MIRROR_MAX), arg)

Selection(a, fl, frc, off, rc, warned) ==
    [all |-> a, full |-> fl, force |-> frc, sb_bytenr |-> off, ret |-> rc,
     warned |-> warned]

\* one pass through the switch of the getopt loop; ret = 1 is "return 1"
Switch(o, a, fl, frc, off) ==
    CASE o.opt = "i" ->
           IF MirrorTooBig(o.arg)
           THEN Selection(a, fl, frc, off, 1, TRUE)
           ELSE Selection(a, fl, frc, btrfs_sb_offset(o.arg[2]), 0, TRUE)
      [] o.opt = "a" -> Selection(TRUE, fl, frc, off, 0, FALSE)
      [] o.opt = "f" -> Selection(a, TRUE, frc, off, 0, FALSE)
      [] o.opt = "F" -> Selection(a, fl, TRUE, off, 0, FALSE)
      [] o.opt = "s" ->
           IF AssumeBytenr(o.arg)
           THEN Selection(FALSE, fl, frc, o.arg, 0, TRUE)
           ELSE Selection(FALSE, fl, frc, btrfs_sb_offset(o.arg[2]), 0, FALSE)
      [] o.opt = "bytenr" -> Selection(FALSE, fl, frc, o.arg, 0, FALSE)

Bump(c, f, n) == [c EXCEPT ![f] = @ + n]

\* while (1) { c = getopt_long(...); if (c < 0) break; switch (c) ... }
GetOpt ==
    /\ pc = "getopt"
    /\ opts # <<>>
    /\ LET o == Head(opts)
           r == Switch(o, all, full, force, sb_bytenr)
           big == o.opt \in {"i", "s"} /\ U64Le(U64(BTRFS_SUPER_MIRROR_MAX), o.arg)
           \* btrfs_sb_offset(arg) is called at lines 137 and 157
           called == \/ o.opt = "i" /\ ~MirrorTooBig(o.arg)
                     \/ o.opt = "s" /\ ~AssumeBytenr(o.arg)
       IN  /\ opts' = Tail(opts)
           /\ lastcall' = (IF called THEN o.arg[2] ELSE lastcall)
           /\ last_s' = (CASE o.opt = "s" -> o.arg
                           [] o.opt \in {"a", "i", "bytenr"} -> <<>>
                           [] OTHER -> last_s)
           /\ all' = r.all
           /\ full' = r.full
           /\ force' = r.force
           /\ sb_bytenr' = r.sb_bytenr
           /\ errno' \in (IF r.warned THEN {errno, 5} ELSE {errno})
           /\ seen' = (IF big THEN seen \cup {o.opt} ELSE seen)
           /\ cause' = (IF big /\ o.opt = "i" THEN "range" ELSE cause)
           /\ IF r.ret # 0
              THEN pc' = "done" /\ status' = r.ret
              ELSE pc' = "getopt" /\ status' = status
    /\ UNCHANGED << ndev, i, idx, fd, dev, calls, diags, probes >>

\* check_argc_min(argc - optind, 1): nonzero when fewer than 1 path is left
check_argc_min(nargs, min) == IF nargs < min THEN 1 ELSE 0

\* if (check_argc_min(argc - optind, 1)) return 1; then i = optind
CheckArgc ==
    /\ pc = "getopt"
    /\ opts = <<>>
    /\ cause' = (IF ndev = 0 THEN "noargs" ELSE cause)
    /\ IF check_argc_min(ndev, 1) # 0
       THEN pc' = "done" /\ status' = 1 /\ i' = i
       ELSE pc' = "for" /\ status' = status /\ i' = 1
    /\ UNCHANGED << opts, ndev, all, full, force, sb_bytenr, idx, fd, dev,
                    errno, seen, calls, diags, last_s, lastcall, probes >>

\* "!fd" for "fd < 0"
OpenFailed_Zero(f) == f = 0

\* if (fd < 0)
OpenFailed(f) == f < 0

\* for (...; i < argc; ...) { fd = open(filename, O_RDONLY); if (fd < 0) ... }
\* (idx = 0 is the initialisation of the mirror loop that follows under "all";
\* probes is history and starts afresh with each device)
OpenDev ==
    /\ pc = "for"
    /\ i <= ndev
    /\ \E f \in {-1, 3} :
         \E d \in (IF f = -1 THEN {NoDev} ELSE Devices) :
           /\ fd' = f
           /\ dev' = d
           /\ calls' = Bump(Bump(calls, "open", 1), "opened", IF f = -1 THEN 0 ELSE 1)
           /\ errno' = (IF f = -1 THEN 5 ELSE errno)
           /\ cause' = (IF f = -1 THEN "open" ELSE cause)
           /\ IF OpenFailed(f)
              THEN pc' = "done" /\ status' = 1
              ELSE pc' = "scan" /\ status' = status
    /\ idx' = 0
    /\ probes' = <<>>
    /\ UNCHANGED << opts, ndev, all, full, force, sb_bytenr, i, seen, diags,
                    last_s, lastcall >>

\* the for loop ends: return 0
Return0 ==
    /\ pc = "for"
    /\ i > ndev
    /\ pc' = "done"
    /\ status' = 0
    /\ UNCHANGED << opts, ndev, all, full, force, sb_bytenr, i, idx, fd, dev,
                    errno, cause, seen, calls, diags, last_s, lastcall, probes >>

HardCause(out) ==
    CASE out = "stat_failed"  -> "stat"
      [] out = "lseek_failed" -> "lseek"
      [] out = "read_failed"  -> "read"
      [] out = "bad_magic"    -> "magic"
      [] OTHER                -> "none"

\* "< 0" for "!= 0"
ProbeFailed_Negative(ret) == ret < 0

\* if (load_and_dump_sb(...)) ...
ProbeFailed(ret) == ret # 0

\* the close(fd) left out
AbortFd_Leak(f) == f

\* ... { close(fd); ... : the descriptor after close
AbortFd(f) == -1

\* "break" for "return 1"
Abort_Break == [pc |-> "close", status |-> -1]

\* ... return 1; }
Abort == [pc |-> "done", status |-> 1]

\* one call of load_and_dump_sb at byte offset off, and the caller's test of
\* its return value; next is where a successful call goes on
Probe(off, next) ==
    \E a \in Answers(dev, off, errno) :
      LET r == load_and_dump_sb(dev, off, full, force, errno, a)
          io == Bump(Bump(Bump(Bump(calls, "fstat", 1), "lseek", r.lseek),
                          "read", r.read), "render", r.render)
      IN  /\ errno' = r.errno
          /\ diags' = diags + r.diag
          \* the log keeps errno only where line 61 consulted it
          /\ probes' = Append(probes, [off |-> off, r |-> [r EXCEPT !.errno =
                           IF r.out \in {"beyond_read", "read_failed"} THEN @ ELSE 0]])
          /\ cause' = (IF HardCause(r.out) # "none" THEN HardCause(r.out) ELSE cause)
          /\ IF ProbeFailed(r.ret)
             THEN /\ fd' = AbortFd(fd)
                  /\ calls' = Bump(io, "close", IF fd' = -1 THEN 1 ELSE 0)
                  /\ pc' = Abort.pc
                  /\ status' = Abort.status
             ELSE /\ fd' = fd
                  /\ calls' = io
                  /\ pc' = next
                  /\ status' = status

\* the increment left out
NextIdx_Stuck(n) == n

\* idx++
NextIdx(n) == n + 1

\* "<=" for "<"
IdxInRange_Inclusive(n) == n <= BTRFS_SUPER_MIRROR_MAX

\* idx < BTRFS_SUPER_MIRROR_MAX
IdxInRange(n) == n < BTRFS_SUPER_MIRROR_MAX

\* the loop variable not used
LoopOffset_First(n) == btrfs_sb_offset(0)

\* sb_bytenr = btrfs_sb_offset(idx)
LoopOffset(n) == btrfs_sb_offset(n)

\* for (idx = 0; idx < BTRFS_SUPER_MIRROR_MAX; idx++) {
\*         sb_bytenr = btrfs_sb_offset(idx); if (load_and_dump_sb(...)) ... }
ProbeAll ==
    /\ pc = "scan"
    /\ all
    /\ IdxInRange(idx)
    /\ sb_bytenr' = LoopOffset(idx)
    /\ lastcall' = idx
    /\ Probe(LoopOffset(idx), "scan")
    /\ idx' = NextIdx(idx)
    /\ UNCHANGED << opts, ndev, all, full, force, i, dev, seen, last_s >>

\* else { if (load_and_dump_sb(filename, fd, sb_bytenr, full, force)) ... }
ProbeOne ==
    /\ pc = "scan"
    /\ ~all
    /\ Probe(sb_bytenr, "close")
    /\ UNCHANGED << opts, ndev, all, full, force, sb_bytenr, i, idx, dev, seen,
                    last_s, lastcall >>

\* close(fd); i++
CloseDev ==
    /\ \/ pc = "close"
       \/ pc = "scan" /\ all /\ ~IdxInRange(idx)
    /\ fd' = -1
    /\ calls' = Bump(calls, "close", 1)
    /\ i' = i + 1
    /\ pc' = "for"
    /\ UNCHANGED << opts, ndev, all, full, force, sb_bytenr, idx, dev, errno,
                    status, cause, seen, diags, last_s, lastcall, probes >>

Next ==
    \/ GetOpt
    \/ CheckArgc
    \/ OpenDev
    \/ Return0
    \/ ProbeAll
    \/ ProbeOne
    \/ CloseDev

Spec == Init /\ [][Next]_vars

\* the process is scheduled until it returns: no step of main waits on
\* another process, so a run that can take a step takes one
FairSpec == Spec /\ WF_vars(Next)

(* ------------------------------ properties ----------------------------- *)

Done == pc = "done"

HardIO == { "open", "stat", "lseek", "read", "magic" }

\* the record at probe k was read in full
FullRead(k) == probes[k].r.read = 1 /\ probes[k].r.n = BTRFS_SUPER_INFO_SIZE

\* C1: once a hard condition (open, stat, length-query or read failure, bad
\* magic without force) has occurred the run is over with status 1: the
\* failing probe is the last probe of its device, and no device after the
\* current one has been opened.
C1_HardConditionEndsRun ==
    cause \in HardIO =>
        /\ Done
        /\ status = 1
        /\ calls.open = i
        /\ \A k \in DOMAIN probes : probes[k].r.ret # 0 => k = Len(probes)
        /\ cause = "open" => probes = <<>>
        /\ cause # "open" => probes # <<>> /\ probes[Len(probes)].r.ret # 0

\* C1 witness: two paths given, the first fails with a hard read error, the
\* second was never opened.
C1_Witness ==
    /\ Done
    /\ ndev = 2
    /\ i = 1
    /\ cause = "read"
    /\ calls.open = 1
    /\ status = 1

\* the environment let every call of probe k succeed (no failed fstat, lseek
\* or read) and the record, if one was read, has the expected magic
Healthy(k) ==
    /\ probes[k].r.out \notin { "stat_failed", "lseek_failed" }
    /\ probes[k].r.read = 1 => probes[k].r.n # -1 /\ probes[k].r.magic # "bad"

C2_Case ==
    /\ Done
    /\ ndev = 1
    /\ all
    /\ calls.opened = 1
    /\ dev.kind \in { "reg", "blk" }
    /\ U64Le(U64Add(btrfs_sb_offset(1), BTRFS_SUPER_INFO_SIZE), dev.len)
    /\ U64Lt(dev.len, btrfs_sb_offset(2))
    /\ \A k \in DOMAIN probes : Healthy(k)

\* C2: under --all, one regular file or block device that holds mirrors 0 and
\* 1 and ends before mirror 2: mirror 0 is rendered, then mirror 1, mirror 2
\* is skipped by the size check with no read, no render and no diagnostic,
\* and the status is 0.
C2_TwoMirrorsThenSkip ==
    C2_Case =>
        /\ status = 0
        /\ Len(probes) = 3
        /\ \A k \in 1 .. 3 : probes[k].off = btrfs_sb_offset(k - 1)
        /\ probes[1].r.out = "rendered" /\ probes[1].r.render = 1
        /\ probes[2].r.out = "rendered" /\ probes[2].r.render = 1
        /\ probes[3].r.out = "beyond_size"
        /\ probes[3].r.read = 0 /\ probes[3].r.render = 0 /\ probes[3].r.diag = 0
        /\ calls.read = 2 /\ calls.render = 2 /\ diags = 0

\* C2 witness: such a run, on the shortest length the claim covers.
C2_Witness ==
    /\ C2_Case
    /\ dev.len = U64Add(btrfs_sb_offset(1), BTRFS_SUPER_INFO_SIZE)
    /\ status = 0

\* probe k read a full record whose magic is not BTRFS_MAGIC
Mismatch(k) == FullRead(k) /\ probes[k].r.magic = "bad"

\* C3: a fully read record with a bad magic, force off: the run is over with
\* status 1, one message naming --force has been printed, and the record was
\* not rendered.
C3_BadMagicAborts ==
    \A k \in DOMAIN probes :
        (Mismatch(k) /\ ~force) =>
            /\ Done
            /\ status = 1
            /\ k = Len(probes)
            /\ diags = 1
            /\ probes[k].r.diag = 1
            /\ probes[k].r.render = 0

\* C3 witness: a bad magic without force, on the second mirror of a device.
C3_Witness ==
    /\ ~force
    /\ Len(probes) = 2
    /\ Mismatch(2)
    /\ Done

\* C4: a fully read record with a bad magic, force on: the record is rendered
\* once with no diagnostic and the call succeeds; the run ends with status 0
\* unless a later probe of the device meets another hard condition; and with
\* force on no run ends because of a bad magic.
C4_ForceSuppressesMismatch ==
    /\ force => cause # "magic"
    /\ \A k \in DOMAIN probes :
        (Mismatch(k) /\ force) =>
            /\ probes[k].r.render = 1
            /\ probes[k].r.ret = 0
            /\ probes[k].r.diag = 0
            /\ diags = 0
            /\ k = Len(probes) => pc \in { "scan", "close", "for", "done" } /\ status # 1
            /\ Done => \/ status = 0 /\ cause = "none"
                       \/ status = 1 /\ k < Len(probes) /\ cause \in { "stat", "lseek", "read" }

\* C4 witness: a forced bad-magic record was rendered, the scan went on to the
\* next mirror, and the run ended with status 0.
C4_Witness ==
    /\ force
    /\ Done
    /\ status = 0
    /\ Len(probes) = 3
    /\ Mismatch(1)
    /\ probes[2].r.render = 1

\* C5: when open fails the run is over with status 1, nothing was done on
\* that path, no later path was opened, and when the path is the first one
\* the whole run made no fstat, lseek, read or render call.
C5_OpenFailureNoIO ==
    cause = "open" =>
        /\ Done
        /\ status = 1
        /\ probes = <<>>
        /\ calls.open = i
        /\ calls.opened = i - 1
        /\ calls.close = i - 1
        /\ i = 1 => calls.fstat = 0 /\ calls.lseek = 0 /\ calls.read = 0
                    /\ calls.render = 0

\* C5 witness: the first path cannot be opened and another path follows it.
C5_Witness ==
    /\ cause = "open"
    /\ i = 1
    /\ ndev = 2
    /\ calls.read = 0
    /\ calls.render = 0
    /\ status = 1

\* C6 as stated: a value >= BTRFS_SUPER_MIRROR_MAX given to -i or to -s ends
\* the run with status 1 and no device is opened, stat'ed, read or rendered.
C6_AsStated ==
    seen # {} =>
        /\ calls = NoCalls
        /\ Done => status = 1

\* C6 as amended: a value >= BTRFS_SUPER_MIRROR_MAX given to -i ends the run
\* at once with status 1, and no device is opened, stat'ed, read or rendered.
C6_LegacyIndexRejected ==
    "i" \in seen =>
        /\ Done
        /\ status = 1
        /\ cause = "range"
        /\ calls = NoCalls
        /\ probes = <<>>

\* C6 witness: -i with too big a value, device paths given, none touched.
C6_Witness ==
    /\ "i" \in seen
    /\ ndev = 2
    /\ Done
    /\ calls.open = 0

C8_HandlesScoped ==
    /\ calls.opened - calls.close \in { 0, 1 }
    /\ fd # -1 <=> calls.opened - calls.close = 1
    /\ pc \in { "getopt", "for", "done" } => fd = -1
    /\ pc \in { "scan", "close" } => fd # -1
    /\ Done => calls.opened = calls.close

\* C8 witness: a hard abort on the second device, both descriptors closed.
C8_Witness ==
    /\ Done
    /\ status = 1
    /\ cause = "read"
    /\ calls.opened = 2
    /\ calls.close = 2
    /\ fd = -1

\* C9: btrfs_sb_offset is strictly increasing on 0 .. MIRROR_MAX - 1, and
\* under --all the probes of a device are at btrfs_sb_offset(0),
\* btrfs_sb_offset(1), ... in this order, so at strictly ascending offsets.
C9_OffsetsAscending ==
    /\ \A m \in Mirrors : \A n \in Mirrors :
         m < n => U64Lt(btrfs_sb_offset(m), btrfs_sb_offset(n))
    /\ all =>
         /\ \A k \in DOMAIN probes : probes[k].off = btrfs_sb_offset(k - 1)
         /\ \A k \in DOMAIN probes : \A l \in DOMAIN probes :
              k < l => U64Lt(probes[k].off, probes[l].off)

\* C9 witness: all three mirrors of a device were probed.
C9_Witness ==
    /\ all
    /\ Len(probes) = BTRFS_SUPER_MIRROR_MAX
    /\ probes[3].r.out = "rendered"

\* C10 as stated: on a regular file or block device of length L whose length
\* query succeeded, the probe at offset o is skipped by the size check, with
\* no read, exactly when o >= L, and otherwise the read is made.
C10_AsStated ==
    \A k \in DOMAIN probes :
        (dev.kind \in { "reg", "blk" } /\ probes[k].r.lseek = 1
            /\ probes[k].r.out # "lseek_failed") =>
            /\ probes[k].r.out = "beyond_size" <=> U64Le(dev.len, probes[k].off)
            /\ probes[k].r.read = 0 <=> U64Le(dev.len, probes[k].off)

\* C11: every read falls in one of three classes.  A full record goes on to
\* the magic test; zero bytes with errno 0 is a benign skip (the call returns
\* 0, nothing is printed, an abort can only come from a later probe); any
\* other result, a short or a failed read, ends the run with status 1.
C11_ReadClassified ==
    \A k \in DOMAIN probes :
        LET r == probes[k].r
        IN  r.read = 1 =>
              /\ r.n = BTRFS_SUPER_INFO_SIZE => r.out \in { "rendered", "bad_magic" }
              /\ (r.n = 0 /\ r.errno = 0) =>
                    /\ r.out = "beyond_read"
                    /\ r.ret = 0 /\ r.render = 0 /\ r.diag = 0
                    /\ (Done /\ status = 1) => k < Len(probes)
              /\ (r.n # BTRFS_SUPER_INFO_SIZE /\ ~(r.n = 0 /\ r.errno = 0)) =>
                    /\ r.out = "read_failed"
                    /\ r.ret = 1
                    /\ k = Len(probes)
                    /\ Done /\ status = 1 /\ cause = "read"

\* C11 witness: a regular file that ends inside mirror 0: the read is short
\* and the run is over with status 1.
C11_Witness ==
    /\ Len(probes) = 1
    /\ dev.kind = "reg"
    /\ dev.len = U64Add(btrfs_sb_offset(0), 2048)
    /\ probes[1].r.n = 2048
    /\ probes[1].r.out = "read_failed"
    /\ status = 1

\* C12 as stated: a read that returns zero bytes is a benign skip whatever
\* errno held before the read.
C12_AsStated ==
    \A k \in DOMAIN probes :
        (probes[k].r.read = 1 /\ probes[k].r.n = 0) => probes[k].r.out = "beyond_read"

\* C13: on a device that is neither a regular file nor a block device no
\* length query is made and every probe whose fstat succeeded goes on to the
\* read; a probe that is skipped without output is one whose read returned
\* zero bytes with errno 0.
C13_SizeCheckSkipped ==
    /\ (i = 1 /\ dev.kind = "chr") => calls.lseek = 0
    /\ \A k \in DOMAIN probes :
         LET r == probes[k].r
         IN  (dev.kind \notin { "reg", "blk" } /\ r.out # "stat_failed") =>
               /\ r.lseek = 0
               /\ r.read = 1
               /\ r.out \notin { "beyond_size", "lseek_failed" }
               /\ (r.ret = 0 /\ r.render = 0) =>
                     r.out = "beyond_read" /\ r.n = 0 /\ r.errno = 0

\* C13 witness: a character device under --all whose second mirror is a
\* benign skip by the read and whose third mirror is rendered.
C13_Witness ==
    /\ dev.kind = "chr"
    /\ Len(probes) = 3
    /\ probes[2].r.out = "beyond_read"
    /\ probes[3].r.out = "rendered"
    /\ calls.lseek = 0

\* C14: a probe renders once exactly when its record was read in full and
\* its magic is good or force is on, and never otherwise; the printer gets
\* the full flag as parsed; devices are taken in list order, each once, and
\* the probes of a device are at strictly ascending offsets, none twice.
C14_RenderOncePerValid ==
    /\ pc \in { "scan", "close" } => calls.open = i /\ calls.opened = i
    /\ \A k \in DOMAIN probes :
         LET r == probes[k].r
         IN  /\ r.render = (IF FullRead(k) /\ (r.magic = "ok" \/ force) THEN 1 ELSE 0)
             /\ r.render = 1 => r.full = full
    /\ \A k \in DOMAIN probes : \A l \in DOMAIN probes :
         k < l => U64Lt(probes[k].off, probes[l].off)
    /\ i <= 1 => calls.render = Cardinality({ k \in DOMAIN probes : probes[k].r.render = 1 })

\* C14 witness: --full, the second device, mirrors 0 and 2 rendered with the
\* full flag and mirror 1 not.
C14_Witness ==
    /\ full
    /\ i = 2
    /\ Len(probes) = 3
    /\ probes[1].r.render = 1 /\ probes[1].r.full
    /\ probes[2].r.render = 0
    /\ probes[3].r.render = 1 /\ probes[3].r.full

\* the offsets the selection as parsed asks for, in probing order
SelSeq ==
    IF all THEN [ k \in 1 .. BTRFS_SUPER_MIRROR_MAX |-> btrfs_sb_offset(k - 1) ]
    ELSE << sb_bytenr >>

\* the probes made on the current device are a prefix of SelSeq
ProbesFollowSelection ==
    pc # "getopt" =>
        /\ Len(probes) <= Len(SelSeq)
        /\ \A k \in DOMAIN probes : probes[k].off = SelSeq[k]

C16_LegacySResolved ==
    last_s # <<>> =>
        /\ ~all
        /\ sb_bytenr = (IF U64Lt(last_s, U64(BTRFS_SUPER_MIRROR_MAX))
                        THEN btrfs_sb_offset(last_s[2])
                        ELSE last_s)
        /\ Len(probes) <= 1
        /\ \A k \in DOMAIN probes : probes[k].off = sb_bytenr
        /\ pc = "close" => Len(probes) = 1
        /\ calls.fstat <= i
        /\ pc = "for" => calls.fstat = i - 1

\* C16 witness: -s 3, two devices, each probed once at byte offset 3.
C16_Witness ==
    /\ last_s = U64(3)
    /\ i = 2
    /\ pc = "close"
    /\ probes[1].off = U64(3)
    /\ calls.fstat = 2

\* C17: every call of btrfs_sb_offset has an argument below
\* BTRFS_SUPER_MIRROR_MAX: the calls made while the options are read come
\* before any device I/O, and an -i or -s value out of range never reaches
\* the call (it is on record in seen, rejected or taken as a byte offset);
\* under --all the offsets probed are those of mirrors 0, 1, 2 in turn.
C17_OffsetCallsInRange ==
    /\ lastcall \in Mirrors
    /\ pc = "getopt" => calls = NoCalls /\ probes = <<>>
    /\ cause = "range" => Done /\ status = 1 /\ calls = NoCalls
    /\ all => /\ Len(probes) <= BTRFS_SUPER_MIRROR_MAX
              /\ \A k \in DOMAIN probes :
                     k - 1 \in Mirrors /\ probes[k].off = btrfs_sb_offset(k - 1)

\* C17 witness: -s 3 taken as a byte offset, then --all: the third mirror
\* probed through btrfs_sb_offset(2).
C17_Witness ==
    /\ seen = { "s" }
    /\ all
    /\ lastcall = BTRFS_SUPER_MIRROR_MAX - 1
    /\ Len(probes) = BTRFS_SUPER_MIRROR_MAX

\* C18: every run ends with status 0 or 1; the calls of load_and_dump_sb
\* number at most (paths given) x (offsets selected), hence at most
\* paths x BTRFS_SUPER_MIRROR_MAX, each making at most one length query and
\* one read; the device index never moves back, no path is opened twice, and
\* under --all each probe of a device moves to the next mirror.
C18_TerminatesBounded ==
    /\ <>(Done /\ status \in { 0, 1 })
    /\ [](pc # "getopt" =>
            /\ calls.fstat <= ndev * Len(SelSeq)
            /\ calls.fstat <= ndev * BTRFS_SUPER_MIRROR_MAX
            /\ calls.lseek <= calls.fstat
            /\ calls.read <= calls.fstat
            /\ calls.open <= ndev)
    /\ [][ /\ i' >= i
           /\ calls'.open > calls.open => i' = i /\ calls.open = i - 1
           /\ pc = "scan" => idx' >= idx
           /\ (all /\ Len(probes') > Len(probes)) => idx' = idx + 1
         ]_vars

\* C18 witness: two devices under --all, run to completion with the bound
\* met: six probes, six reads.
C18_Witness ==
    /\ Done
    /\ status = 0
    /\ all
    /\ ndev = MaxDevs
    /\ calls.fstat = ndev * BTRFS_SUPER_MIRROR_MAX
    /\ calls.read = calls.fstat

\* the getopt loop run over the options os from the selection sel: the
\* selection it leaves, or the one that returned 1
RECURSIVE Resolve(_, _)
Resolve(os, sel) ==
    IF os = <<>> THEN sel
    ELSE LET r == Switch(Head(os), sel.all, sel.full, sel.force, sel.sb_bytenr)
         IN  IF r.ret # 0 THEN r ELSE Resolve(Tail(os), r)

\* the offsets the scan of one device goes through under selection sel
OffsetSeq(sel) ==
    IF sel.all THEN [ k \in 1 .. BTRFS_SUPER_MIRROR_MAX |-> btrfs_sb_offset(k - 1) ]
    ELSE << sel.sb_bytenr >>

Reverse(os) == [ k \in DOMAIN os |-> os[Len(os) + 1 - k] ]

\* -i <v> written as -s <v>
SuperForI(os) ==
    [ k \in DOMAIN os |->
        IF os[k].opt = "i" THEN [ opt |-> "s", arg |-> os[k].arg ] ELSE os[k] ]

\* C19, as stated: the options still to be read resolve to the same offset
\* sequence in either order, and an accepted -i <v> resolves as -s <v> does,
\* --all given or not.
C19_AsStated ==
    pc = "getopt" =>
        LET sel == Selection(all, full, force, sb_bytenr, 0, FALSE)
            fwd == Resolve(opts, sel)
            bwd == Resolve(Reverse(opts), sel)
            sup == Resolve(SuperForI(opts), sel)
        IN  /\ (fwd.ret = 0 /\ bwd.ret = 0) => OffsetSeq(fwd) = OffsetSeq(bwd)
            /\ fwd.ret = 0 => OffsetSeq(fwd) = OffsetSeq(sup)

=============================================================================
